---- MODULE Spec2Model ----
(***************************************************************************)
(* A model of examples/snowflake_dag.rs: the QueryDAG that main builds     *)
(* from the parsed statements (build_from_query, extract_from_select,      *)
(* extract_table, extract_column_deps / walk_expr) and prints.             *)
(*                                                                         *)
(* The parsed AST (sqlparser::ast) is the input.  An AST node is a record  *)
(* with a "kind" field naming the enum variant and the fields of that      *)
(* variant the program reads.  Option<T> is a sequence of length 0 (None)  *)
(* or 1 (Some).                                                            *)
(***************************************************************************)
EXTENDS Integers, Sequences, FiniteSets, TLC

VARIABLES ast,           \* main: the parsed statements (Vec<Statement>)
          i,             \* main: position of the next statement of the for loop
          pc,            \* main: "loop" while iterating, "printed" after dag.print()
          tables,        \* QueryDAG.tables
          columns,       \* QueryDAG.columns
          dependencies,  \* QueryDAG.dependencies
          prev,          \* the QueryDAG as it was when the last build_from_query was entered
          out,           \* what print wrote
          expr,          \* the argument of extract_column_deps (expression specification)
          deps,          \* its result: <<>> before the call, <<r>> after
          epc            \* "idle", "ready" before and "walked" after extract_column_deps

vars == <<ast, i, pc, tables, columns, dependencies, prev, out, expr, deps, epc>>

----------------------------------------------------------------------------
(* Bounds of the model.                                                    *)

MaxStatements == 2   \* statements in one parsed input
MaxCtes == 2         \* CTEs in one WITH clause
MaxFactors == 2      \* table factors in the FROM/JOIN list of one select
MaxProj == 2         \* projection items of one select
MaxExprDepth == 2    \* nesting depth of an expression
MaxArgs == 2         \* arguments of a function call

----------------------------------------------------------------------------
(* Option and small sequence helpers.                                      *)

None == <<>>
Some(x) == <<x>>
IsSome(o) == Len(o) = 1
Unwrap(o) == o[1]

\* All sequences over S of length 0..n.
RECURSIVE SeqsUpTo(_, _)
SeqsUpTo(S, n) ==
    IF n = 0 THEN {<<>>}
    ELSE LET shorter == SeqsUpTo(S, n - 1)
         IN  shorter \cup {Append(s, x) : s \in {t \in shorter : Len(t) = n - 1}, x \in S}

----------------------------------------------------------------------------
(* The AST: constructors for the variants the program distinguishes.       *)

Ident(v) == [value |-> v, quote_style |-> None]
QuotedIdent(v) == [value |-> v, quote_style |-> Some("\"")]
TableAlias(v) == [name |-> Ident(v)]

\* Expr
Identifier(id) == [kind |-> "Identifier", ident |-> id]
CompoundIdentifier(ids) == [kind |-> "CompoundIdentifier", idents |-> ids]
BinaryOp(l, op, r) == [kind |-> "BinaryOp", left |-> l, op |-> op, right |-> r]
Nested(e) == [kind |-> "Nested", expr |-> e]
UnaryOp(op, e) == [kind |-> "UnaryOp", op |-> op, expr |-> e]
Value(v) == [kind |-> "Value", value |-> v]
Function(n, a) == [kind |-> "Function", name |-> n, args |-> a]

\* FunctionArguments, FunctionArg, FunctionArgExpr
ArgsNone == [kind |-> "None"]
ArgsSubquery == [kind |-> "Subquery"]
ArgsList(as) == [kind |-> "List", args |-> as]
Unnamed(a) == [kind |-> "Unnamed", arg |-> a]
Named(n, a) == [kind |-> "Named", name |-> n, arg |-> a]
ArgExpr(e) == [kind |-> "Expr", expr |-> e]
ArgWildcard == [kind |-> "Wildcard"]

\* SelectItem
UnnamedExpr(e) == [kind |-> "UnnamedExpr", expr |-> e]
ExprWithAlias(e, a) == [kind |-> "ExprWithAlias", expr |-> e, alias |-> a]
Wildcard == [kind |-> "Wildcard"]
QualifiedWildcard(n) == [kind |-> "QualifiedWildcard", name |-> n]

\* TableFactor, TableWithJoins, Join
Table(n, al) == [kind |-> "Table", name |-> n, alias |-> al]
Derived(q, al) == [kind |-> "Derived", subquery |-> q, alias |-> al]
TableFunction == [kind |-> "TableFunction"]
Join(f) == [relation |-> f]
TableWithJoins(f, js) == [relation |-> f, joins |-> js]

\* Select, SetExpr, Cte, With, Query, Statement
Select(p, f) == [projection |-> p, from |-> f]
SetSelect(s) == [kind |-> "Select", select |-> s]
SetOperation(l, r) == [kind |-> "SetOperation", left |-> l, right |-> r]
Cte(n, q) == [alias |-> TableAlias(n), query |-> q]
Query(w, b) == [with |-> w, body |-> b]
With(cs) == [cte_tables |-> cs]
StmtQuery(q) == [kind |-> "Query", query |-> q]
StmtOther == [kind |-> "Commit"]

----------------------------------------------------------------------------
(* Display (format!("{}", ..)) of the AST nodes the program renders.       *)

\* impl Display for Ident: the value, inside its quote character when quoted.
FormatIdent(id) ==
    IF IsSome(id.quote_style)
    THEN Unwrap(id.quote_style) \o id.value \o Unwrap(id.quote_style)
    ELSE id.value

\* s.join(sep) of a sequence of strings.
RECURSIVE JoinStr(_, _)
JoinStr(ss, sep) ==
    IF Len(ss) = 0 THEN ""
    ELSE IF Len(ss) = 1 THEN ss[1]
    ELSE ss[1] \o sep \o JoinStr(Tail(ss), sep)

\* impl Display for ObjectName: the parts, displayed, joined by ".".
FormatObjectName(n) == JoinStr([k \in 1..Len(n) |-> FormatIdent(n[k])], ".")

RECURSIVE FormatExpr(_)
FormatArgExpr(a) ==
    IF a.kind = "Expr" THEN FormatExpr(a.expr) ELSE "*"
FormatArg(a) ==
    IF a.kind = "Unnamed" THEN FormatArgExpr(a.arg)
    ELSE FormatIdent(a.name) \o " => " \o FormatArgExpr(a.arg)
FormatExpr(e) ==
    CASE e.kind = "Identifier" -> FormatIdent(e.ident)
      [] e.kind = "CompoundIdentifier" ->
            JoinStr([k \in 1..Len(e.idents) |-> FormatIdent(e.idents[k])], ".")
      [] e.kind = "BinaryOp" ->
            FormatExpr(e.left) \o " " \o e.op \o " " \o FormatExpr(e.right)
      [] e.kind = "Nested" -> "(" \o FormatExpr(e.expr) \o ")"
      [] e.kind = "UnaryOp" -> e.op \o FormatExpr(e.expr)
      [] e.kind = "Value" -> e.value
      [] e.kind = "Function" ->
            FormatObjectName(e.name) \o
            (CASE e.args.kind = "None" -> ""
               [] e.args.kind = "Subquery" -> "(SELECT 1)"
               [] e.args.kind = "List" ->
                    "(" \o JoinStr([k \in 1..Len(e.args.args) |->
                                      FormatArg(e.args.args[k])], ", ") \o ")")

----------------------------------------------------------------------------
(* extract_column_deps and walk_expr.  deps is the &mut Vec<String> the    *)
(* walk pushes to; each operator returns the vector after the call.        *)

RECURSIVE walk_expr(_, _)
RECURSIVE walk_args(_, _, _)

\* for arg in &arg_list.args { if let Unnamed(Expr(e)) = arg { walk_expr(e, deps) } }
walk_args(args, k, ds) ==
    IF k > Len(args) THEN ds
    ELSE LET arg == args[k]
             ds1 == IF arg.kind = "Unnamed" /\ arg.arg.kind = "Expr"
                    THEN walk_expr(arg.arg.expr, ds)
                    ELSE ds
         IN  walk_args(args, k + 1, ds1)

\* walk_expr with the operands of a binary operation walked right to left.
walk_expr_right_first(e, ds) ==
    CASE e.kind = "Identifier" -> Append(ds, e.ident.value)
      [] e.kind = "CompoundIdentifier" ->
            Append(ds, JoinStr([k \in 1..Len(e.idents) |-> e.idents[k].value], "."))
      [] e.kind = "BinaryOp" -> walk_expr(e.left, walk_expr(e.right, ds))
      [] e.kind = "Function" ->
            IF e.args.kind = "List" THEN walk_args(e.args.args, 1, ds) ELSE ds
      [] e.kind = "Nested" -> walk_expr(e.expr, ds)
      [] OTHER -> ds

walk_expr(e, ds) ==
    CASE e.kind = "Identifier" -> Append(ds, e.ident.value)
      [] e.kind = "CompoundIdentifier" ->
            Append(ds, JoinStr([k \in 1..Len(e.idents) |-> e.idents[k].value], "."))
      [] e.kind = "BinaryOp" -> walk_expr(e.right, walk_expr(e.left, ds))
      [] e.kind = "Function" ->
            IF e.args.kind = "List" THEN walk_args(e.args.args, 1, ds) ELSE ds
      [] e.kind = "Nested" -> walk_expr(e.expr, ds)
      [] OTHER -> ds

extract_column_deps(e) == walk_expr(e, <<>>)

----------------------------------------------------------------------------
(* The QueryDAG.  A dag is the record of the three fields; every operator  *)
(* that takes &mut self takes the dag and returns the dag after the call.  *)

\* QueryDAG::new()
new == [tables |-> <<>>, columns |-> <<>>, dependencies |-> <<>>]


\* insert that keeps the entry a key already has.
InsertIfAbsent(m, k, v) ==
    [x \in (DOMAIN m) \cup {k} |-> IF x \in DOMAIN m THEN m[x] ELSE v]

\* HashMap::insert(k, v): the entry of k is v afterwards, the others are kept.
Insert(m, k, v) == [x \in (DOMAIN m) \cup {k} |-> IF x = k THEN v ELSE m[x]]

\* HashMap::entry(k).or_insert_with(f): an entry that exists is kept.
EntryOrInsert(m, k, v) == IF k \in DOMAIN m THEN m ELSE Insert(m, k, v)

TableNode(n, al, t) == [name |-> n, alias |-> al, node_type |-> t]
ColumnNode(n, st, e, ds) ==
    [name |-> n, source_table |-> st, expression |-> e, dependencies |-> ds]

\* One arm of the match on a projection item, applied to the column vector.
push_projection(cols, context, proj) ==
    CASE proj.kind = "UnnamedExpr" ->
            Append(cols, ColumnNode(FormatExpr(proj.expr), Some(context),
                                    FormatExpr(proj.expr),
                                    extract_column_deps(proj.expr)))
      [] proj.kind = "ExprWithAlias" ->
            Append(cols, ColumnNode(proj.alias.value, Some(context),
                                    FormatExpr(proj.expr),
                                    extract_column_deps(proj.expr)))
      [] proj.kind = "Wildcard" ->
            Append(cols, ColumnNode("*", Some(context), "*", <<>>))
      [] OTHER -> cols

\* for proj in &select.projection { match proj { .. } }
RECURSIVE extract_projection(_, _, _, _)
extract_projection(cols, context, projection, k) ==
    IF k > Len(projection) THEN cols
    ELSE extract_projection(push_projection(cols, context, projection[k]),
                            context, projection, k + 1)

RECURSIVE extract_from_select(_, _, _)
RECURSIVE extract_table(_, _)
RECURSIVE extract_joins(_, _, _)
RECURSIVE extract_from(_, _, _)

\* for join in &table_with_joins.joins { self.extract_table(&join.relation) }
extract_joins(dag, joins, k) ==
    IF k > Len(joins) THEN dag
    ELSE extract_joins(extract_table(dag, joins[k].relation), joins, k + 1)

\* for table_with_joins in &select.from { relation, then its joins }
extract_from(dag, from, k) ==
    IF k > Len(from) THEN dag
    ELSE extract_from(
            extract_joins(extract_table(dag, from[k].relation), from[k].joins, 1),
            from, k + 1)

\* extract_from_select with the projection handled before the FROM/JOIN list.
extract_from_select_projection_first(dag, context, select) ==
    extract_from([dag EXCEPT !.columns =
                    extract_projection(dag.columns, context, select.projection, 1)],
                 select.from, 1)

extract_from_select(dag, context, select) ==
    LET d1 == extract_from(dag, select.from, 1)
    IN  [d1 EXCEPT !.columns =
            extract_projection(d1.columns, context, select.projection, 1)]


\* extract_table that also walks the body of a derived table without an alias.
extract_table_unaliased_visited(dag, factor) ==
    CASE factor.kind = "Table" ->
            LET table_name == FormatObjectName(factor.name)
                alias_name == IF IsSome(factor.alias)
                              THEN Some(Unwrap(factor.alias).name.value)
                              ELSE None
                key == IF IsSome(alias_name) THEN Unwrap(alias_name) ELSE table_name
            IN  [dag EXCEPT
                   !.tables = Insert(@, key, TableNode(table_name, alias_name, "BaseTable")),
                   !.dependencies = EntryOrInsert(@, key, {})]
      [] factor.kind = "Derived" ->
            IF IsSome(factor.alias)
            THEN LET alias_name == Unwrap(factor.alias).name.value
                     d1 == [dag EXCEPT !.tables =
                              Insert(@, alias_name,
                                     TableNode("(subquery)", Some(alias_name), "Subquery"))]
                 IN  IF factor.subquery.body.kind = "Select"
                     THEN extract_from_select(d1, alias_name, factor.subquery.body.select)
                     ELSE d1
            ELSE IF factor.subquery.body.kind = "Select"
                 THEN extract_from_select(dag, "(subquery)", factor.subquery.body.select)
                 ELSE dag
      [] OTHER -> dag

extract_table(dag, factor) ==
    CASE factor.kind = "Table" ->
            LET table_name == FormatObjectName(factor.name)
                alias_name == IF IsSome(factor.alias)
                              THEN Some(Unwrap(factor.alias).name.value)
                              ELSE None
                key == IF IsSome(alias_name) THEN Unwrap(alias_name) ELSE table_name
            IN  [dag EXCEPT
                   !.tables = Insert(@, key, TableNode(table_name, alias_name, "BaseTable")),
                   !.dependencies = EntryOrInsert(@, key, {})]
      [] factor.kind = "Derived" ->
            IF IsSome(factor.alias)
            THEN LET alias_name == Unwrap(factor.alias).name.value
                     d1 == [dag EXCEPT !.tables =
                              Insert(@, alias_name,
                                     TableNode("(subquery)", Some(alias_name), "Subquery"))]
                 IN  IF factor.subquery.body.kind = "Select"
                     THEN extract_from_select(d1, alias_name, factor.subquery.body.select)
                     ELSE d1
            ELSE dag
      [] OTHER -> dag

\* One iteration of: for cte in &with.cte_tables { .. }
build_cte(dag, cte) ==
    LET cte_name == cte.alias.name.value
        d1 == [dag EXCEPT !.tables =
                 Insert(@, cte_name, TableNode(cte_name, None, "CTE"))]
    IN  IF cte.query.body.kind = "Select"
        THEN extract_from_select(d1, cte_name, cte.query.body.select)
        ELSE d1

RECURSIVE build_ctes(_, _, _)
build_ctes(dag, ctes, k) ==
    IF k > Len(ctes) THEN dag
    ELSE build_ctes(build_cte(dag, ctes[k]), ctes, k + 1)


\* build_from_query that returns at the first CTE whose body is not a plain select.
build_from_query_stops_at_unsupported(dag, query) ==
    LET ctes == IF IsSome(query.with) THEN Unwrap(query.with).cte_tables ELSE <<>>
        bad == {k \in 1..Len(ctes) : ctes[k].query.body.kind # "Select"}
    IN  IF bad = {}
        THEN LET d1 == build_ctes(dag, ctes, 1)
             IN  IF query.body.kind = "Select"
                 THEN extract_from_select(d1, "__result__", query.body.select)
                 ELSE d1
        ELSE build_ctes(dag, SubSeq(ctes, 1, CHOOSE k \in bad : \A j \in bad : k <= j), 1)

build_from_query(dag, query) ==
    LET d1 == IF IsSome(query.with)
              THEN build_ctes(dag, Unwrap(query.with).cte_tables, 1)
              ELSE dag
    IN  IF query.body.kind = "Select"
        THEN extract_from_select(d1, "__result__", query.body.select)
        ELSE d1

----------------------------------------------------------------------------
(* print.  TABLES iterates the HashMap in an unspecified order, so that    *)
(* section is kept as the set of its entries; COLUMNS is in vector order;  *)
(* DEPENDENCY GRAPH lists the keys after Vec::sort (byte-wise order of     *)
(* the strings).                                                           *)

\* The strings that occur as registry keys in the inputs below, in the order of
\* str::cmp ('_' = 0x5f sorts before the lower-case letters, "s" before "s.a").
StringOrder == <<"__result__", "a", "b", "d", "e", "s.a">>

StrRank(s) == CHOOSE k \in 1..Len(StringOrder) : StringOrder[k] = s
StrLess(s, t) == StrRank(s) < StrRank(t)

\* sorted_tables.sort(): the keys, ascending.
RECURSIVE SortKeys(_)
SortKeys(S) ==
    IF S = {} THEN <<>>
    ELSE LET m == CHOOSE x \in S : \A y \in S \ {x} : StrLess(x, y)
         IN  <<m>> \o SortKeys(S \ {m})

print_output(dag) ==
    [tables  |-> {[key |-> k, node_type |-> dag.tables[k].node_type,
                   alias |-> dag.tables[k].alias, full_name |-> dag.tables[k].name]
                  : k \in DOMAIN dag.tables},
     columns |-> [k \in 1..Len(dag.columns) |->
                    [name |-> dag.columns[k].name,
                     context |-> dag.columns[k].source_table,
                     expr |-> dag.columns[k].expression,
                     deps |-> IF dag.columns[k].dependencies # <<>>
                              THEN Some(dag.columns[k].dependencies) ELSE None]],
     graph   |-> SortKeys(DOMAIN dag.tables)]

----------------------------------------------------------------------------
(* The inputs: the parsed statements main is run on.                       *)

NameA == <<Ident("a")>>
NameB == <<Ident("b")>>
NameSA == <<Ident("s"), Ident("a")>>
X == Identifier(Ident("x"))
AX == CompoundIdentifier(<<Ident("a"), Ident("x")>>)

PlainQuery(body) == Query(None, body)
SelectQuery(p, f) == PlainQuery(SetSelect(Select(p, f)))
From1(f) == <<TableWithJoins(f, <<>>)>>

\* a UNION b: a body that is not a plain select.
UnionBody ==
    SetOperation(SetSelect(Select(<<UnnamedExpr(X)>>, From1(Table(NameA, None)))),
                 SetSelect(Select(<<UnnamedExpr(X)>>, From1(Table(NameB, None)))))

LeafFactors ==
    {Table(NameA, None), Table(NameB, None), Table(NameA, Some(TableAlias("b"))),
     Table(NameSA, None), TableFunction}

ProjItems ==
    {UnnamedExpr(X), ExprWithAlias(AX, Ident("y")), Wildcard, QualifiedWildcard(NameA)}

\* The projection lists over the items S: one to MaxProj items.
ProjLists(S) == SeqsUpTo(S, MaxProj) \ {<<>>}

\* Number of table factors of a FROM list.
RECURSIVE FactorCount(_)
FactorCount(from) ==
    IF from = <<>> THEN 0
    ELSE 1 + Len(from[1].joins) + FactorCount(Tail(from))

\* Every FROM list of at most n factors over F: each factor after the first either
\* starts a new comma-separated item or is joined to the last one.
RECURSIVE FromLists(_, _)
FromLists(F, n) ==
    IF n = 0 THEN {<<>>}
    ELSE LET shorter == FromLists(F, n - 1)
             full == {fl \in shorter : FactorCount(fl) = n - 1}
         IN  shorter
             \cup {Append(fl, TableWithJoins(f, <<>>)) : fl \in full, f \in F}
             \cup {[fl EXCEPT ![Len(fl)].joins = Append(@, Join(f))]
                   : fl \in {g \in full : g # <<>>}, f \in F}

\* Derived tables: (SELECT * FROM b) and (a UNION b), unaliased or aliased d or a.
DerivedFactors ==
    {Derived(PlainQuery(b), al)
     : b \in {SetSelect(Select(<<Wildcard>>, From1(Table(NameB, None)))), UnionBody},
       al \in {None, Some(TableAlias("d")), Some(TableAlias("a"))}}

\* SELECT x FROM <any FROM/JOIN list>
QueriesFrom ==
    {SelectQuery(<<UnnamedExpr(X)>>, fl)
     : fl \in FromLists(LeafFactors \cup DerivedFactors, MaxFactors)}

\* SELECT <any projection> FROM a
QueriesProj ==
    {SelectQuery(p, From1(Table(NameA, None))) : p \in ProjLists(ProjItems)}

\* SELECT p1 FROM (SELECT p2 FROM ..) [d] [JOIN a]
InnerFroms ==
    {<<>>, From1(Table(NameB, None)),
     From1(Derived(SelectQuery(<<UnnamedExpr(AX)>>, From1(Table(NameA, None))),
                   Some(TableAlias("e"))))}
QueriesDerived ==
    {SelectQuery(p1, <<TableWithJoins(Derived(SelectQuery(p2, f2), al), js)>>)
     : p1 \in ProjLists({UnnamedExpr(X), Wildcard}),
       p2 \in ProjLists({ExprWithAlias(AX, Ident("y")), QualifiedWildcard(NameA)}),
       f2 \in InnerFroms,
       al \in {None, Some(TableAlias("d"))},
       js \in {<<>>, <<Join(Table(NameA, None))>>}}

\* WITH <ctes> <body>
CteBodies ==
    {SetSelect(Select(<<UnnamedExpr(X)>>, From1(f)))
     : f \in {Table(NameA, None), Table(NameB, None), Table(NameA, Some(TableAlias("b")))}}
    \cup {UnionBody,
          SetSelect(Select(<<Wildcard>>,
                           From1(Derived(SelectQuery(<<UnnamedExpr(AX)>>, <<>>),
                                         Some(TableAlias("d"))))))}
Ctes == {Cte(n, PlainQuery(b)) : n \in {"a", "b"}, b \in CteBodies}
FinalBodies ==
    {SetSelect(Select(<<UnnamedExpr(X)>>, From1(f)))
     : f \in {Table(NameA, None), Table(NameB, None)}} \cup {UnionBody}
QueriesWith ==
    {Query(Some(With(cs)), b)
     : cs \in SeqsUpTo(Ctes, MaxCtes) \ {<<>>}, b \in FinalBodies}

Queries == QueriesFrom \cup QueriesProj \cup QueriesDerived \cup QueriesWith

\* The statements of the inputs of several statements.
SmallStatements ==
    {StmtOther,
     StmtQuery(SelectQuery(<<UnnamedExpr(X)>>, From1(Table(NameA, None)))),
     StmtQuery(SelectQuery(<<Wildcard>>, From1(Table(NameB, Some(TableAlias("d")))))),
     StmtQuery(SelectQuery(<<UnnamedExpr(AX)>>,
                 From1(Derived(SelectQuery(<<Wildcard>>, From1(Table(NameB, None))),
                               Some(TableAlias("a")))))),
     StmtQuery(Query(Some(With(<<Cte("a", SelectQuery(<<UnnamedExpr(X)>>,
                                                      From1(Table(NameB, None))))>>)),
                     SetSelect(Select(<<UnnamedExpr(AX)>>, From1(Table(NameA, None)))))),
     StmtQuery(Query(Some(With(<<Cte("b", PlainQuery(UnionBody))>>)), UnionBody))}

Asts ==
    {<<StmtQuery(q)>> : q \in Queries} \cup SeqsUpTo(SmallStatements, MaxStatements)

----------------------------------------------------------------------------
(* The expressions extract_column_deps is applied to.                      *)

LeafExprs ==
    {Identifier(Ident("x")), Identifier(QuotedIdent("y")),
     CompoundIdentifier(<<Ident("a"), Ident("b"), Ident("c")>>), Value("1")}

LeafArgs ==
    {Unnamed(ArgExpr(e)) : e \in {Identifier(Ident("x")), Value("1")}}
    \cup {Unnamed(ArgWildcard), Named(Ident("n"), ArgExpr(Identifier(Ident("z"))))}

\* Expressions nested at most d deep; a composite has at most one deep operand,
\* a function call with a deep argument has it alone, last of two or first of two.
RECURSIVE ExprsOfDepth(_)
ExprsOfDepth(d) ==
    IF d = 0 THEN LeafExprs
    ELSE LET sub == ExprsOfDepth(d - 1)
             x == Identifier(Ident("x"))
             abc == CompoundIdentifier(<<Ident("a"), Ident("b"), Ident("c")>>)
             f == <<Ident("f")>>
         IN  LeafExprs
             \cup {Function(f, ArgsList(as)) : as \in SeqsUpTo(LeafArgs, MaxArgs)}
             \cup {Function(<<Ident("g")>>, ArgsNone), Function(<<Ident("g")>>, ArgsSubquery)}
             \cup UNION {{BinaryOp(e, "+", x), BinaryOp(e, "+", abc),
                          BinaryOp(x, "*", e), BinaryOp(Value("1"), "*", e),
                          Nested(e), UnaryOp("-", e),
                          Function(f, ArgsList(<<Unnamed(ArgExpr(e))>>)),
                          Function(f, ArgsList(<<Unnamed(ArgExpr(x)), Unnamed(ArgExpr(e))>>)),
                          Function(f, ArgsList(<<Named(Ident("n"), ArgExpr(x)),
                                                 Unnamed(ArgExpr(e))>>)),
                          Function(f, ArgsList(<<Unnamed(ArgExpr(e)), Unnamed(ArgWildcard)>>))}
                         : e \in sub}

Exprs == ExprsOfDepth(MaxExprDepth)

----------------------------------------------------------------------------
(* main: the loop over the statements, then print.                         *)

Dag == [tables |-> tables, columns |-> columns, dependencies |-> dependencies]

Init ==
    /\ ast \in Asts
    /\ i = 1
    /\ pc = "loop"
    /\ tables = new.tables
    /\ columns = new.columns
    /\ dependencies = new.dependencies
    /\ prev = new
    /\ out = None
    /\ expr = Value("0")
    /\ deps = None
    /\ epc = "idle"

\* if let Statement::Query(query) = statement { dag.build_from_query(query) }
BuildFromQuery ==
    /\ pc = "loop"
    /\ i <= Len(ast)
    /\ ast[i].kind = "Query"
    /\ LET d == build_from_query(Dag, ast[i].query)
       IN  /\ tables' = d.tables
           /\ columns' = d.columns
           /\ dependencies' = d.dependencies
    /\ prev' = Dag
    /\ i' = i + 1
    /\ UNCHANGED <<ast, pc, out, expr, deps, epc>>

\* A statement that is not a query is passed over.
SkipStatement ==
    /\ pc = "loop"
    /\ i <= Len(ast)
    /\ ast[i].kind # "Query"
    /\ i' = i + 1
    /\ UNCHANGED <<ast, pc, tables, columns, dependencies, prev, out, expr, deps, epc>>

\* dag.print() after the loop.
print ==
    /\ pc = "loop"
    /\ i > Len(ast)
    /\ out' = Some(print_output(Dag))
    /\ pc' = "printed"
    /\ UNCHANGED <<ast, i, tables, columns, dependencies, prev, expr, deps, epc>>

Next == BuildFromQuery \/ SkipStatement \/ print

Spec == Init /\ [][Next]_vars

(* extract_column_deps on its own, over every expression of Exprs.         *)

InitDeps ==
    /\ ast = <<>>
    /\ i = 1
    /\ pc = "idle"
    /\ tables = new.tables
    /\ columns = new.columns
    /\ dependencies = new.dependencies
    /\ prev = new
    /\ out = None
    /\ expr \in Exprs
    /\ deps = None
    /\ epc = "ready"

ExtractColumnDeps ==
    /\ epc = "ready"
    /\ deps' = Some(extract_column_deps(expr))
    /\ epc' = "walked"
    /\ UNCHANGED <<ast, i, pc, tables, columns, dependencies, prev, out, expr>>

NextDeps == ExtractColumnDeps

SpecDeps == InitDeps /\ [][NextDeps]_vars

----------------------------------------------------------------------------
(* Vocabulary of the properties.                                           *)

\* The last statement main processed was a query: the graph is the one
\* build_from_query left, and prev the one it was called on.
Built == i > 1 /\ ast[i - 1].kind = "Query"
LastQuery == ast[i - 1].query
CtesOf(q) == IF IsSome(q.with) THEN Unwrap(q.with).cte_tables ELSE <<>>
NewColumns == SubSeq(columns, Len(prev.columns) + 1, Len(columns))

\* The table factors of a FROM list, in FROM/JOIN order.
RECURSIVE FactorsOf(_)
FactorsOf(from) ==
    IF from = <<>> THEN <<>>
    ELSE <<from[1].relation>>
         \o [k \in 1..Len(from[1].joins) |-> from[1].joins[k].relation]
         \o FactorsOf(Tail(from))

\* The registry key of a table factor, when it has one.
IsKeyed(f) == f.kind = "Table" \/ (f.kind = "Derived" /\ IsSome(f.alias))
KeyOf(f) ==
    IF IsSome(f.alias) THEN Unwrap(f.alias).name.value ELSE FormatObjectName(f.name)

\* The keys discovered in the FROM/JOIN list of a select.
DiscoveredKeys(select) ==
    {KeyOf(f) : f \in {g \in {FactorsOf(select.from)[k] : k \in 1..Len(FactorsOf(select.from))}
                       : IsKeyed(g)}}

\* The edges (producer, consumer) a query's FROM/JOIN lists call for: into each
\* CTE from what its select reads, into the sentinel from what the final select reads.
ReadEdges(q) ==
    UNION {{<<p, CtesOf(q)[k].alias.name.value>>
            : p \in DiscoveredKeys(CtesOf(q)[k].query.body.select)}
           : k \in {j \in 1..Len(CtesOf(q)) : CtesOf(q)[j].query.body.kind = "Select"}}
    \cup (IF q.body.kind = "Select"
          THEN {<<p, "__result__">> : p \in DiscoveredKeys(q.body.select)}
          ELSE {})

\* The edge set the graph holds: p is in the dependency set of c.
Edges == {pc2 \in (DOMAIN dependencies) \X (DOMAIN dependencies)
          : pc2[1] \in dependencies[pc2[2]]}

----------------------------------------------------------------------------
(* C1.  After build_from_query on a query whose WITH clause declares a CTE *)
(* and whose later CTE body or final body reads that CTE by name in its    *)
(* FROM/JOIN list, the registry entry keyed by the CTE's declared name has *)
(* kind CTE.                                                               *)

\* The select reads the table named n in its FROM/JOIN list.
ReadsByName(body, n) ==
    /\ body.kind = "Select"
    /\ \E k \in 1..Len(FactorsOf(body.select.from)) :
          LET f == FactorsOf(body.select.from)[k]
          IN  f.kind = "Table" /\ FormatObjectName(f.name) = n

\* C1: a CTE that a later CTE body or the final body reads by name is still
\* registered with kind CTE when the build finishes.
C1_ReadCteKeepsKindCTE ==
    Built =>
      \A k \in 1..Len(CtesOf(LastQuery)) :
        LET n == CtesOf(LastQuery)[k].alias.name.value
        IN  (\/ ReadsByName(LastQuery.body, n)
             \/ \E j \in (k + 1)..Len(CtesOf(LastQuery)) :
                   ReadsByName(CtesOf(LastQuery)[j].query.body, n))
            => (n \in DOMAIN tables /\ tables[n].node_type = "CTE")

----------------------------------------------------------------------------
(* C2.  In every graph build_from_query produces, the registry holds the   *)
(* sentinel result entity under the key "__result__" (a map holds a key at *)
(* most once, so: the key is present).                                     *)

\* C2: every built graph has the sentinel key "__result__" in its registry.
C2_SentinelRegistered == Built => "__result__" \in DOMAIN tables

----------------------------------------------------------------------------
(* C3.  After build_from_query the edge set holds (discovered key, CTE     *)
(* key) for every key discovered in a CTE's FROM/JOIN list, and            *)
(* (discovered key, sentinel) for every key discovered in the final        *)
(* body's FROM/JOIN list.                                                  *)

\* C3: every edge the FROM/JOIN lists of the built query call for is in the edge set.
C3_ReadEdgesRegistered == Built => ReadEdges(LastQuery) \subseteq Edges

----------------------------------------------------------------------------
(* C4.  For an acyclic graph the program offers an order of the table keys *)
(* as long as the number of distinct keys in which the producer of every   *)
(* edge comes before its consumer; when the edges form a cycle the request *)
(* fails with CycleDetected instead of returning an order.  The edges are  *)
(* the ones of C3; the order the program offers is the key list print      *)
(* writes, and that output has no part that reports a cycle.               *)

NodesOf(E) == {e[1] : e \in E} \cup {e[2] : e \in E}

\* The nodes reachable from the set S in at least one and at most n steps.
RECURSIVE ReachIn(_, _, _)
ReachIn(S, E, n) ==
    IF n = 0 THEN {}
    ELSE LET step == {e[2] : e \in {d \in E : d[1] \in S}}
         IN  step \cup ReachIn(step, E, n - 1)

HasCycle(E) == \E x \in NodesOf(E) : x \in ReachIn({x}, E, Cardinality(NodesOf(E)))

IndexIn(seq, x) == CHOOSE k \in 1..Len(seq) : seq[k] = x
InSeq(seq, x) == \E k \in 1..Len(seq) : seq[k] = x

ReportsCycle(o) == "cycle_detected" \in DOMAIN o

\* C4: the order offered after a build is a topological order of all the keys when
\* the edges are acyclic, and a cycle is reported instead when they are not.
C4_TopologicalOrderOrCycle ==
    (pc = "printed" /\ Built) =>
      LET o == Unwrap(out)
          E == ReadEdges(LastQuery)
      IN  IF HasCycle(E)
          THEN ReportsCycle(o)
          ELSE /\ Len(o.graph) = Cardinality(DOMAIN tables)
               /\ \A e \in E : /\ InSeq(o.graph, e[1])
                               /\ InSeq(o.graph, e[2])
                               /\ IndexIn(o.graph, e[1]) < IndexIn(o.graph, e[2])

----------------------------------------------------------------------------
(* C5.  Every wildcard projection item, plain or qualified, makes          *)
(* extract_from_select append exactly one column record with output name   *)
(* "*", the enclosing context and no dependencies; so every projection     *)
(* item of a visited select yields exactly one column record.              *)

\* The selects build_from_query visits, with their contexts: the plain-select CTE
\* bodies, the plain-select final body, and the plain-select bodies of the aliased
\* derived tables of a visited select.
RECURSIVE VisitedUnder(_, _)
RECURSIVE VisitedInFactors(_)
VisitedInFactors(fs) ==
    IF fs = <<>> THEN <<>>
    ELSE (IF fs[1].kind = "Derived" /\ IsSome(fs[1].alias)
             /\ fs[1].subquery.body.kind = "Select"
          THEN VisitedUnder(Unwrap(fs[1].alias).name.value, fs[1].subquery.body.select)
          ELSE <<>>)
         \o VisitedInFactors(Tail(fs))
VisitedUnder(context, select) ==
    <<[context |-> context, select |-> select]>> \o VisitedInFactors(FactorsOf(select.from))

RECURSIVE VisitedInCtes(_)
VisitedInCtes(ctes) ==
    IF ctes = <<>> THEN <<>>
    ELSE (IF ctes[1].query.body.kind = "Select"
          THEN VisitedUnder(ctes[1].alias.name.value, ctes[1].query.body.select)
          ELSE <<>>)
         \o VisitedInCtes(Tail(ctes))

VisitedSelects(q) ==
    VisitedInCtes(CtesOf(q))
    \o (IF q.body.kind = "Select" THEN VisitedUnder("__result__", q.body.select) ELSE <<>>)

RECURSIVE SumLen(_)
SumLen(vs) == IF vs = <<>> THEN 0 ELSE Len(vs[1].select.projection) + SumLen(Tail(vs))

IsWildcardItem(item) == item.kind \in {"Wildcard", "QualifiedWildcard"}

\* C5: a build appends one record per projection item of the visited selects, and
\* for each wildcard item, plain or qualified, a record "*" of its context with no
\* dependencies.
C5_WildcardsYieldOneRecord ==
    Built =>
      LET vs == VisitedSelects(LastQuery)
      IN  /\ Len(NewColumns) = SumLen(vs)
          /\ \A v \in 1..Len(vs) : \A k \in 1..Len(vs[v].select.projection) :
                IsWildcardItem(vs[v].select.projection[k]) =>
                  \E c \in 1..Len(NewColumns) :
                     /\ NewColumns[c].name = "*"
                     /\ NewColumns[c].source_table = Some(vs[v].context)
                     /\ NewColumns[c].dependencies = <<>>

----------------------------------------------------------------------------
(* C6.  extract_column_deps returns the identifiers of a left-to-right     *)
(* depth-first walk: one string per simple identifier, one dotted string   *)
(* per compound identifier, descending only through binary operations      *)
(* (left, then right), the positional expression arguments of a function   *)
(* call (in order) and nested expressions; duplicates are kept, and every  *)
(* other shape contributes nothing.                                        *)

\* a.b.c as one dotted string, built from the last part backwards.
RECURSIVE Dotted(_)
Dotted(ids) ==
    IF Len(ids) = 1 THEN ids[1].value
    ELSE Dotted(SubSeq(ids, 1, Len(ids) - 1)) \o "." \o ids[Len(ids)].value

\* The identifiers of e in left-to-right depth-first order, as the concatenation
\* of the identifiers of its operands.
RECURSIVE DfsIdentifiers(_)
RECURSIVE DfsOfArgs(_)
DfsOfArgs(args) ==
    IF args = <<>> THEN <<>>
    ELSE (IF args[1].kind = "Unnamed" /\ args[1].arg.kind = "Expr"
          THEN DfsIdentifiers(args[1].arg.expr) ELSE <<>>)
         \o DfsOfArgs(Tail(args))
DfsIdentifiers(e) ==
    IF e.kind = "Identifier" THEN <<e.ident.value>>
    ELSE IF e.kind = "CompoundIdentifier" THEN <<Dotted(e.idents)>>
    ELSE IF e.kind = "BinaryOp" THEN DfsIdentifiers(e.left) \o DfsIdentifiers(e.right)
    ELSE IF e.kind = "Nested" THEN DfsIdentifiers(e.expr)
    ELSE IF e.kind = "Function" /\ e.args.kind = "List" THEN DfsOfArgs(e.args.args)
    ELSE <<>>

\* C6: the result of extract_column_deps is the left-to-right depth-first sequence
\* of the identifiers of the expression.
C6_DepsAreDepthFirstIdentifiers ==
    epc = "walked" => Unwrap(deps) = DfsIdentifiers(expr)

\* f(x, a.b.c) + x: a function call with two positional arguments on the left, a
\* repeated identifier on the right.
C6_Witness ==
    /\ epc = "walked"
    /\ expr.kind = "BinaryOp"
    /\ expr.left.kind = "Function"
    /\ Unwrap(deps) = <<"x", "a.b.c", "x">>

----------------------------------------------------------------------------
(* C7.  After build_from_query the column records are in the textual order *)
(* of their projection items, also when a FROM/JOIN list holds aliased     *)
(* derived subqueries (whose projection items come textually after those   *)
(* of the enclosing select) and when there are several CTEs.               *)
(*                                                                         *)
(* As amended: the column records are in processing order, that is CTEs in *)
(* declaration order and then the final body, and for each select first    *)
(* the records of the aliased derived subqueries of its FROM/JOIN list (in *)
(* FROM/JOIN order, each in the same way) and then the select's own items  *)
(* in textual order; this is the textual order whenever no visited select  *)
(* has an aliased plain-select derived subquery in its FROM/JOIN list.     *)

\* The records of the items of one projection list, in list order.
RecordsOf(context, projection) == extract_projection(<<>>, context, projection, 1)

IsVisitedDerived(f) ==
    f.kind = "Derived" /\ IsSome(f.alias) /\ f.subquery.body.kind = "Select"

\* The records of a select as the text has them: SELECT list, then FROM/JOIN list.
RECURSIVE TextualOfSelect(_, _)
RECURSIVE TextualOfFactors(_)
TextualOfFactors(fs) ==
    IF fs = <<>> THEN <<>>
    ELSE (IF IsVisitedDerived(fs[1])
          THEN TextualOfSelect(Unwrap(fs[1].alias).name.value, fs[1].subquery.body.select)
          ELSE <<>>)
         \o TextualOfFactors(Tail(fs))
TextualOfSelect(context, select) ==
    RecordsOf(context, select.projection) \o TextualOfFactors(FactorsOf(select.from))

\* The records of a select as it is processed: FROM/JOIN list, then SELECT list.
RECURSIVE ProcessedOfSelect(_, _)
RECURSIVE ProcessedOfFactors(_)
ProcessedOfFactors(fs) ==
    IF fs = <<>> THEN <<>>
    ELSE (IF IsVisitedDerived(fs[1])
          THEN ProcessedOfSelect(Unwrap(fs[1].alias).name.value, fs[1].subquery.body.select)
          ELSE <<>>)
         \o ProcessedOfFactors(Tail(fs))
ProcessedOfSelect(context, select) ==
    ProcessedOfFactors(FactorsOf(select.from)) \o RecordsOf(context, select.projection)

RECURSIVE TextualOfCtes(_)
TextualOfCtes(ctes) ==
    IF ctes = <<>> THEN <<>>
    ELSE (IF ctes[1].query.body.kind = "Select"
          THEN TextualOfSelect(ctes[1].alias.name.value, ctes[1].query.body.select)
          ELSE <<>>)
         \o TextualOfCtes(Tail(ctes))
RECURSIVE ProcessedOfCtes(_)
ProcessedOfCtes(ctes) ==
    IF ctes = <<>> THEN <<>>
    ELSE (IF ctes[1].query.body.kind = "Select"
          THEN ProcessedOfSelect(ctes[1].alias.name.value, ctes[1].query.body.select)
          ELSE <<>>)
         \o ProcessedOfCtes(Tail(ctes))

TextualColumns(q) ==
    TextualOfCtes(CtesOf(q))
    \o (IF q.body.kind = "Select" THEN TextualOfSelect("__result__", q.body.select) ELSE <<>>)
ProcessedColumns(q) ==
    ProcessedOfCtes(CtesOf(q))
    \o (IF q.body.kind = "Select" THEN ProcessedOfSelect("__result__", q.body.select) ELSE <<>>)

\* Some visited select has an aliased plain-select derived subquery in its FROM/JOIN list.
HasVisitedDerived(q) ==
    \E v \in 1..Len(VisitedSelects(q)) :
       \E k \in 1..Len(FactorsOf(VisitedSelects(q)[v].select.from)) :
          IsVisitedDerived(FactorsOf(VisitedSelects(q)[v].select.from)[k])

\* C7, as stated: the records a build appends are in the textual order of their
\* projection items.
C7_ColumnsInTextualOrder == Built => NewColumns = TextualColumns(LastQuery)

\* C7, as amended: the records a build appends are in processing order, which is
\* the textual order when no visited select has a visited derived subquery.
C7_ColumnsInProcessingOrder ==
    Built => /\ NewColumns = ProcessedColumns(LastQuery)
             /\ ~HasVisitedDerived(LastQuery) => NewColumns = TextualColumns(LastQuery)

\* SELECT x FROM (SELECT a.x AS y FROM ..) d: the record of y, context d, comes
\* before the record of x, context __result__.
C7_Witness ==
    /\ Built
    /\ HasVisitedDerived(LastQuery)
    /\ Len(NewColumns) >= 2
    /\ NewColumns[1].source_table = Some("d")
    /\ NewColumns[1].name = "y"
    /\ NewColumns[Len(NewColumns)].source_table = Some("__result__")
    /\ NewColumns # TextualColumns(LastQuery)

----------------------------------------------------------------------------
(* C8.  build_from_query completes whatever the query shape: a CTE body or *)
(* a top-level body that is not a plain select contributes no discovered   *)
(* tables and no column records, and every other CTE and the final body    *)
(* are processed exactly as if that portion were absent (apart from the    *)
(* CTE's own registry entry).                                              *)

\* The sequence without its k-th element.
RemoveAt(seq, k) == SubSeq(seq, 1, k - 1) \o SubSeq(seq, k + 1, Len(seq))

\* The query without its k-th CTE.
WithoutCte(q, k) ==
    [q EXCEPT !.with = Some(With(RemoveAt(CtesOf(q), k)))]

\* The query with SELECT <nothing> FROM <nothing> as its body.
WithEmptyBody(q) == [q EXCEPT !.body = SetSelect(Select(<<>>, <<>>))]

\* Equal registries but for the entry of key n.
SameExceptKey(t1, t2, n) ==
    /\ (DOMAIN t1) \ {n} = (DOMAIN t2) \ {n}
    /\ \A k \in (DOMAIN t1) \ {n} : t1[k] = t2[k]

AllBodiesUnsupported(q) ==
    /\ q.body.kind # "Select"
    /\ \A k \in 1..Len(CtesOf(q)) : CtesOf(q)[k].query.body.kind # "Select"

\* d is a graph: a registry of table nodes, a vector of column records with their
\* context, and dependency sets over strings.
IsGraph(d) ==
    /\ DOMAIN d = {"tables", "columns", "dependencies"}
    /\ \A k \in DOMAIN d.tables :
          /\ DOMAIN d.tables[k] = {"name", "alias", "node_type"}
          /\ d.tables[k].node_type \in {"BaseTable", "CTE", "Subquery"}
    /\ \A k \in 1..Len(d.columns) :
          /\ DOMAIN d.columns[k] = {"name", "source_table", "expression", "dependencies"}
          /\ IsSome(d.columns[k].source_table)
    /\ \A k \in DOMAIN d.dependencies : d.dependencies[k] \subseteq DOMAIN d.tables

\* C8: a build yields a graph for every query; a CTE whose body is not a plain
\* select leaves only its registry entry, a final body that is not a plain select
\* leaves nothing, and the rest of the query is processed as without them.
C8_UnsupportedBodiesAreSkipped ==
    /\ (pc = "loop" /\ i <= Len(ast) /\ ast[i].kind = "Query") =>
          IsGraph(build_from_query(Dag, ast[i].query))
    /\ Built =>
         /\ \A k \in 1..Len(CtesOf(LastQuery)) :
              CtesOf(LastQuery)[k].query.body.kind # "Select" =>
                LET n == CtesOf(LastQuery)[k].alias.name.value
                    d == build_from_query(prev, WithoutCte(LastQuery, k))
                IN  /\ n \in DOMAIN tables
                    /\ SameExceptKey(tables, d.tables, n)
                    /\ columns = d.columns
                    /\ dependencies = d.dependencies
         /\ LastQuery.body.kind # "Select" =>
              Dag = build_from_query(prev, WithEmptyBody(LastQuery))
         /\ AllBodiesUnsupported(LastQuery) =>
              /\ columns = prev.columns
              /\ dependencies = prev.dependencies
              /\ DOMAIN tables = (DOMAIN prev.tables)
                    \cup {CtesOf(LastQuery)[k].alias.name.value : k \in 1..Len(CtesOf(LastQuery))}

\* WITH a AS (.. UNION ..), b AS (SELECT ..) SELECT ..: the second CTE and the
\* final body were processed after the unsupported first one.
C8_Witness ==
    /\ Built
    /\ Len(CtesOf(LastQuery)) = 2
    /\ CtesOf(LastQuery)[1].query.body.kind = "SetOperation"
    /\ CtesOf(LastQuery)[2].query.body.kind = "Select"
    /\ LastQuery.body.kind = "Select"
    /\ Len(NewColumns) = 2
    /\ NewColumns[2].source_table = Some("__result__")
    /\ CtesOf(LastQuery)[1].alias.name.value \in DOMAIN tables

----------------------------------------------------------------------------
(* C9.  Every table entity is stored under its alias if it has one, else   *)
(* under its canonical name; after the registrations of a build (CTEs in   *)
(* declaration order, each followed by its FROM/JOIN list, then the final  *)
(* body) the registry maps each key to the entity registered last under    *)
(* it, and no key is ever removed.                                         *)

\* The registrations (key, entity) of a FROM/JOIN list, in processing order.
RECURSIVE RegsOfFactors(_)
RegsOfFactors(fs) ==
    IF fs = <<>> THEN <<>>
    ELSE (CASE fs[1].kind = "Table" ->
                 <<[key |-> KeyOf(fs[1]),
                    entity |-> [name |-> FormatObjectName(fs[1].name),
                                alias |-> IF IsSome(fs[1].alias)
                                          THEN Some(KeyOf(fs[1])) ELSE None,
                                node_type |-> "BaseTable"]]>>
            [] fs[1].kind = "Derived" /\ IsSome(fs[1].alias) ->
                 <<[key |-> KeyOf(fs[1]),
                    entity |-> [name |-> "(subquery)", alias |-> Some(KeyOf(fs[1])),
                                node_type |-> "Subquery"]]>>
                 \o (IF fs[1].subquery.body.kind = "Select"
                     THEN RegsOfFactors(FactorsOf(fs[1].subquery.body.select.from))
                     ELSE <<>>)
            [] OTHER -> <<>>)
         \o RegsOfFactors(Tail(fs))

RECURSIVE RegsOfCtes(_)
RegsOfCtes(ctes) ==
    IF ctes = <<>> THEN <<>>
    ELSE <<[key |-> ctes[1].alias.name.value,
            entity |-> [name |-> ctes[1].alias.name.value, alias |-> None,
                        node_type |-> "CTE"]]>>
         \o (IF ctes[1].query.body.kind = "Select"
             THEN RegsOfFactors(FactorsOf(ctes[1].query.body.select.from))
             ELSE <<>>)
         \o RegsOfCtes(Tail(ctes))

Registrations(q) ==
    RegsOfCtes(CtesOf(q))
    \o (IF q.body.kind = "Select" THEN RegsOfFactors(FactorsOf(q.body.select.from)) ELSE <<>>)

RegKeys(regs) == {regs[k].key : k \in 1..Len(regs)}
LastReg(regs, key) ==
    regs[CHOOSE k \in 1..Len(regs) :
            /\ regs[k].key = key
            /\ \A j \in (k + 1)..Len(regs) : regs[j].key # key].entity

\* C9: every entity is keyed by its alias, else its name; keys are never removed;
\* after a build each key registered by it maps to its last registration.
C9_KeyedByAliasLastWriteWins ==
    /\ \A k \in DOMAIN tables :
          k = (IF IsSome(tables[k].alias) THEN Unwrap(tables[k].alias) ELSE tables[k].name)
    /\ DOMAIN prev.tables \subseteq DOMAIN tables
    /\ Built =>
         LET regs == Registrations(LastQuery)
         IN  /\ DOMAIN tables = (DOMAIN prev.tables) \cup RegKeys(regs)
             /\ \A k \in DOMAIN tables :
                   tables[k] = IF k \in RegKeys(regs) THEN LastReg(regs, k)
                               ELSE prev.tables[k]

\* A key registered more than once by the last build, with different entities.
C9_Witness ==
    /\ Built
    /\ \E j, k \in 1..Len(Registrations(LastQuery)) :
          /\ j < k
          /\ Registrations(LastQuery)[j].key = Registrations(LastQuery)[k].key
          /\ Registrations(LastQuery)[j].entity # Registrations(LastQuery)[k].entity
          /\ tables[Registrations(LastQuery)[k].key] = Registrations(LastQuery)[k].entity
    /\ \E k \in DOMAIN tables : IsSome(tables[k].alias) /\ tables[k].node_type = "BaseTable"
    /\ prev.tables # <<>>

----------------------------------------------------------------------------
(* C10.  Discovering a derived table without an alias leaves the graph     *)
(* unchanged: no entity for it, none for the tables of its own FROM/JOIN   *)
(* list, no column record for its projection items.  An aliased derived    *)
(* table is registered with kind Subquery under its alias and its body is  *)
(* processed with the alias as context.                                    *)

IsUnaliasedDerived(f) == f.kind = "Derived" /\ ~IsSome(f.alias)

\* The derived tables of the inputs, and some with tables and items of their own.
DerivedInputs ==
    DerivedFactors
    \cup {Derived(SelectQuery(p, f), al)
          : p \in {<<UnnamedExpr(X)>>, <<Wildcard, ExprWithAlias(AX, Ident("y"))>>},
            f \in InnerFroms \cup {From1(Table(NameA, Some(TableAlias("d"))))},
            al \in {None, Some(TableAlias("d"))}}

\* The FROM list with one item per factor that is not an unaliased derived table.
RECURSIVE KeepAliased(_)
KeepAliased(fs) ==
    IF fs = <<>> THEN <<>>
    ELSE (IF IsUnaliasedDerived(fs[1]) THEN <<>> ELSE <<TableWithJoins(fs[1], <<>>)>>)
         \o KeepAliased(Tail(fs))

DropUnaliasedOfBody(b) ==
    IF b.kind = "Select"
    THEN SetSelect([b.select EXCEPT !.from = KeepAliased(FactorsOf(b.select.from))])
    ELSE b

\* The query without the unaliased derived tables of its CTE bodies and final body.
DropUnaliased(q) ==
    [with |-> IF IsSome(q.with)
              THEN Some(With([k \in 1..Len(CtesOf(q)) |->
                     [CtesOf(q)[k] EXCEPT !.query.body = DropUnaliasedOfBody(@)]]))
              ELSE None,
     body |-> DropUnaliasedOfBody(q.body)]

HasUnaliasedDerived(q) ==
    \E v \in 1..Len(VisitedSelects(q)) :
       \E k \in 1..Len(FactorsOf(VisitedSelects(q)[v].select.from)) :
          IsUnaliasedDerived(FactorsOf(VisitedSelects(q)[v].select.from)[k])

\* C10: a build is the build of the query without its unaliased derived tables;
\* extract_table leaves every reachable graph unchanged on an unaliased derived
\* table, and on an aliased one registers the Subquery entity under the alias and
\* appends the records of the body's own items with the alias as context.
C10_UnaliasedDerivedIsSkipped ==
    /\ Built => Dag = build_from_query(prev, DropUnaliased(LastQuery))
    /\ \A f \in DerivedInputs :
          LET d == extract_table(Dag, f)
          IN  IF IsUnaliasedDerived(f)
              THEN d = Dag
              ELSE LET al == Unwrap(f.alias).name.value
                       entity == [name |-> "(subquery)", alias |-> Some(al),
                                  node_type |-> "Subquery"]
                   IN  /\ al \in DOMAIN d.tables
                       /\ f.subquery.body.kind # "Select" =>
                            d = [Dag EXCEPT !.tables = [k \in (DOMAIN tables) \cup {al} |->
                                                          IF k = al THEN entity ELSE tables[k]]]
                       /\ f.subquery.body.kind = "Select" =>
                            LET sel == f.subquery.body.select
                                own == RecordsOf(al, sel.projection)
                                inner == RegKeys(RegsOfFactors(FactorsOf(sel.from)))
                            IN  /\ al \notin inner => d.tables[al] = entity
                                /\ inner \subseteq DOMAIN d.tables
                                /\ Len(d.columns) >= Len(columns) + Len(own)
                                /\ SubSeq(d.columns, Len(d.columns) - Len(own) + 1,
                                          Len(d.columns)) = own
                                /\ \A k \in 1..Len(own) : own[k].source_table = Some(al)

\* SELECT x FROM (SELECT * FROM b) JOIN (SELECT * FROM b) d ..: the unaliased
\* subquery left nothing, the aliased one its entity and its column.
C10_Witness ==
    /\ Built
    /\ HasUnaliasedDerived(LastQuery)
    /\ LastQuery.body.kind = "Select"
    /\ Len(FactorsOf(LastQuery.body.select.from)) = 2
    /\ IsUnaliasedDerived(FactorsOf(LastQuery.body.select.from)[1])
    /\ FactorsOf(LastQuery.body.select.from)[1].subquery.body.kind = "Select"
    /\ DOMAIN tables = {"b", "d"}
    /\ tables["d"].node_type = "Subquery"
    /\ Len(columns) = 2
    /\ columns[1].source_table = Some("d")

====
